---- MODULE Spec2Model ----
(***************************************************************************)
(* zip2json: two postal-code registries (KEN_ALL, the full registry, and   *)
(* JIGYOSYO, the office registry) are fetched, unzipped, re-encoded and    *)
(* folded row by row into one HashMap keyed by the upper three characters  *)
(* of the postal code; main then writes one JSON file per key 001..999.    *)
(*                                                                         *)
(* Text is a sequence of characters.  A character is a one-element string; *)
(* a character outside ASCII is written by its code point ("U+FF08" is the *)
(* fullwidth left parenthesis) and takes three bytes in UTF-8.             *)
(***************************************************************************)
EXTENDS Integers, Sequences, FiniteSets, TLC

(***************************************************************************)
(* Bounds of the model.                                                    *)
(***************************************************************************)
\* Files an archive holds at most (the length of the Vec unzip_file returns).
MaxFiles == 2

\* Rows one run folds into the dataset at most.
MaxRows == 4

(***************************************************************************)
(* Program constants.                                                      *)
(***************************************************************************)
\* for zip_number in 1..1000: the first value and the excluded end.
FirstZip == 1

EndZip == 1000

\* upper_zipcode = zip_code[..3]: a byte offset.
UpperLen == 3

(***************************************************************************)
(* Characters and strings.                                                 *)
(***************************************************************************)
Quote == "\""

Comma == ","

Digit == <<"0", "1", "2", "3", "4", "5", "6", "7", "8", "9">>

\* The characters of the model that UTF-8 encodes in three bytes.
ThreeByteChars ==
  {"U+FF08", "U+FF09", "U+305D", "U+306E", "U+4ED6", "U+6B21", "U+30D3",
   "U+30EB", "U+3092", "U+9664", "U+304F", "U+5730", "U+968E", "U+30FB",
   "U+5C64", "U+4E0D", "U+660E", "U+4EE5", "U+4E0B", "U+306B", "U+63B2",
   "U+8F09", "U+304C", "U+306A", "U+3044", "U+5834", "U+5408", "U+3012"}

Utf8Len(c) == IF c \in ThreeByteChars THEN 3 ELSE 1

RECURSIVE ByteLen(_)
ByteLen(s) == IF s = <<>> THEN 0 ELSE Utf8Len(Head(s)) + ByteLen(Tail(s))

\* str::is_char_boundary: byte offset n falls between two characters of s.
IsCharBoundary(s, n) == \E k \in 0..Len(s) : ByteLen(SubSeq(s, 1, k)) = n

\* The number of characters of s before byte offset n (a character boundary).
CharsBefore(s, n) == CHOOSE k \in 0..Len(s) : ByteLen(SubSeq(s, 1, k)) = n

\* &s[..n] and &s[n..] of a str; both panic unless n is a character boundary.
SliceTo(s, n) == SubSeq(s, 1, CharsBefore(s, n))

SliceFrom(s, n) == SubSeq(s, CharsBefore(s, n) + 1, Len(s))

\* str::split(','): no quote-aware parsing, an empty text is one empty column.
RECURSIVE Split(_)
Split(line) ==
  IF \A i \in 1..Len(line) : line[i] # Comma
    THEN <<line>>
    ELSE LET i == CHOOSE j \in 1..Len(line) :
                    line[j] = Comma /\ \A k \in 1..(j - 1) : line[k] # Comma
         IN  <<SubSeq(line, 1, i - 1)>> \o Split(SubSeq(line, i + 1, Len(line)))

\* str::replace(pat, ""): every non-overlapping match of pat, left to right.
RECURSIVE Remove(_, _)
Remove(s, pat) ==
  IF Len(s) < Len(pat) THEN s
  ELSE IF SubSeq(s, 1, Len(pat)) = pat
    THEN Remove(SubSeq(s, Len(pat) + 1, Len(s)), pat)
    ELSE <<Head(s)>> \o Remove(Tail(s), pat)

\* Mutant of Format03: format!("{}", zip_number), no zero padding.
FormatUnpadded(n) ==
  IF n >= 100 THEN <<Digit[(n \div 100) + 1], Digit[((n \div 10) % 10) + 1],
                     Digit[(n % 10) + 1]>>
  ELSE IF n >= 10 THEN <<Digit[(n \div 10) + 1], Digit[(n % 10) + 1]>>
  ELSE <<Digit[n + 1]>>

\* format!("{:03}", zip_number) for 0 <= zip_number < 1000.
Format03(n) ==
  <<Digit[(n \div 100) + 1], Digit[((n \div 10) % 10) + 1], Digit[(n % 10) + 1]>>

\* The literals of process_csv_files.
NoListingBelow ==
  <<"U+4EE5", "U+4E0B", "U+306B", "U+63B2", "U+8F09", "U+304C", "U+306A",
    "U+3044", "U+5834", "U+5408">>

BracketPatterns ==
  << <<"U+FF08", "U+305D", "U+306E", "U+4ED6", "U+FF09">>,
     <<"U+FF08", "U+6B21", "U+306E", "U+30D3", "U+30EB", "U+3092", "U+9664",
       "U+304F", "U+FF09">>,
     <<"U+FF08", "U+5730", "U+968E", "U+30FB", "U+968E", "U+5C64", "U+4E0D",
       "U+660E", "U+FF09">>,
     <<"U+FF08">>,
     <<"U+FF09">> >>

RECURSIVE RemoveAll(_, _)
RemoveAll(s, pats) ==
  IF pats = <<>> THEN s ELSE RemoveAll(Remove(s, Head(pats)), Tail(pats))


(***************************************************************************)
(* The input lines of the model.  A line of a file is named in the state   *)
(* ("K1") and LineText gives its text.  KEN_ALL.CSV has 15 columns,        *)
(* JIGYOSYO.CSV 13.  The text of a file, and of buf, is a sequence of such *)
(* names and of line terminators; names that follow each other without a   *)
(* terminator between them are one line of buf.lines().                    *)
(***************************************************************************)
Q(s) == <<Quote>> \o s \o <<Quote>>

RECURSIVE Csv(_)
Csv(fields) ==
  IF Len(fields) = 1 THEN Head(fields)
  ELSE Head(fields) \o <<Comma>> \o Csv(Tail(fields))

X == Q(<<"x">>)

Zero == <<"0">>

Tokyo == <<"T", "o", "k", "y", "o">>

Shibuya == <<"S", "h", "i", "b", "u", "y", "a">>

Meguro == <<"M", "e", "g", "u", "r", "o">>

Hokkaido == <<"H", "o", "k", "k", "a", "i", "d", "o">>

Sapporo == <<"S", "a", "p", "p", "o", "r", "o">>

Dogen == <<"D", "o", "g", "e", "n">>

KenAllLine(zip, pref, munic, town) ==
  Csv(<<Zero, X, Q(zip), X, X, X, Q(pref), Q(munic), Q(town),
        Zero, Zero, Zero, Zero, Zero, Zero>>)

JigyoshoLine(name, pref, munic, town, house, zip) ==
  Csv(<<Zero, X, Q(name), Q(pref), Q(munic), Q(town), Q(house), Q(zip),
        X, X, Zero, Zero, Zero>>)

\* K1: 150-0001 Tokyo Shibuya, the town carries a bracketed annotation.
\* K2: 000-0001 Hokkaido Sapporo, the town is the "no listing below" sentinel.
\* K3: 001-0002 Hokkaido Sapporo, the town carries a stray left parenthesis.
\* K4: eight columns only.
\* K5: the postal code is "15".
\* J1: 150-0001 Tokyo Meguro (the suffix of K1, another municipality).
\* J2: 150-0003 Tokyo Shibuya (the pair of K1, another suffix).
\* J3: the postal code is the single character U+3012 (three bytes).
\* J4: seven columns only.
KenAllLines == {"K1", "K2", "K3", "K4", "K5"}

JigyoshoLines == {"J1", "J2", "J3", "J4"}

LineText(id) ==
  CASE id = "K1" -> KenAllLine(<<"1", "5", "0", "0", "0", "0", "1">>, Tokyo, Shibuya,
                               Dogen \o BracketPatterns[1])
    [] id = "K2" -> KenAllLine(<<"0", "0", "0", "0", "0", "0", "1">>, Hokkaido, Sapporo,
                               NoListingBelow)
    [] id = "K3" -> KenAllLine(<<"0", "0", "1", "0", "0", "0", "2">>, Hokkaido, Sapporo,
                               <<"U+FF08">> \o Dogen)
    [] id = "K4" -> Csv(<<Zero, X, Q(<<"1", "5", "0", "0", "0", "0", "1">>), X, X, X,
                          Q(Tokyo), Q(Shibuya)>>)
    [] id = "K5" -> KenAllLine(<<"1", "5">>, Tokyo, Shibuya, Dogen)
    [] id = "J1" -> JigyoshoLine(<<"A">>, Tokyo, Meguro, Dogen, <<"1", "-", "2">>,
                                 <<"1", "5", "0", "0", "0", "0", "1">>)
    [] id = "J2" -> JigyoshoLine(<<"B">>, Tokyo, Shibuya, <<"K">>, <<"3">>,
                                 <<"1", "5", "0", "0", "0", "0", "3">>)
    [] id = "J3" -> JigyoshoLine(<<"C">>, Tokyo, Meguro, Dogen, <<"4">>, <<"U+3012">>)
    [] id = "J4" -> Csv(<<Zero, X, Q(<<"D">>), Q(Tokyo), Q(Meguro), Q(Dogen),
                          Q(<<"5">>)>>)

LinesOf(type) == IF type = "CsvtKenAll" THEN KenAllLines ELSE JigyoshoLines

\* The line terminator of a file.
Newline == "NL"

\* str::lines(): the pieces between the terminators; what follows the last
\* terminator is a line unless it is empty.
RECURSIVE LinesFrom(_, _, _)
LinesFrom(s, cur, acc) ==
  IF s = <<>> THEN (IF cur = <<>> THEN acc ELSE Append(acc, cur))
  ELSE IF Head(s) = Newline THEN LinesFrom(Tail(s), <<>>, Append(acc, cur))
  ELSE LinesFrom(Tail(s), Append(cur, Head(s)), acc)

Lines(s) == LinesFrom(s, <<>>, <<>>)

\* The characters of one line of buf.lines().
RECURSIVE TextOf(_)
TextOf(line) ==
  IF line = <<>> THEN <<>> ELSE LineText(Head(line)) \o TextOf(Tail(line))

(***************************************************************************)
(* process_csv_files, one line: the columns read, the clean-up, the split  *)
(* of the postal code.                                                     *)
(***************************************************************************)
\* The largest index a layout reads: columns[8] resp. columns[7].
LastColumn(type) == IF type = "CsvtKenAll" THEN 8 ELSE 7

\* Indexing columns[i] past the end panics.
IndexPanics(type, columns) == Len(columns) <= LastColumn(type)

\* columns is 1-based here: columns[i] of the source is columns[i + 1].
Fields(type, columns) ==
  IF type = "CsvtKenAll"
    THEN [zip_code |-> columns[3], prefecture |-> columns[7],
          municipalitie |-> columns[8], town_area |-> columns[9],
          house_number |-> <<>>, jigyosho |-> <<>>]
    ELSE [zip_code |-> columns[8], prefecture |-> columns[4],
          municipalitie |-> columns[5], town_area |-> columns[6],
          house_number |-> columns[7], jigyosho |-> columns[3]]

Unquote(s) == Remove(s, <<Quote>>)

CleanTown(town) ==
  LET t == Unquote(town)
  IN  RemoveAll(IF t = NoListingBelow THEN <<>> ELSE t, BracketPatterns)

Normalize(type, line) ==
  LET f == Fields(type, Split(line))
  IN  [zip_code |-> Unquote(f.zip_code),
       prefecture |-> Unquote(f.prefecture),
       municipalitie |-> Unquote(f.municipalitie),
       town_area |-> CleanTown(f.town_area),
       house_number |-> Unquote(f.house_number),
       jigyosho |-> Unquote(f.jigyosho)]

\* The line makes process_csv_files panic: a column index past the end, or
\* zip_code[..3] with byte offset 3 past the end or inside a character.
RowPanics(type, line) ==
  IF IndexPanics(type, Split(line)) THEN TRUE
  ELSE ~IsCharBoundary(Normalize(type, line).zip_code, UpperLen)

\* upper_zipcode = zip_code[..3]
UpperOf(zip_code) == SliceTo(zip_code, UpperLen)

\* lower_zipcode = zip_code[3..]
LowerOf(zip_code) == SliceFrom(zip_code, UpperLen)

\* vec![town_area] resp. vec![town_area, house_number, jigyosho]
ItemOf(type, n) ==
  IF type = "CsvtKenAll" THEN <<n.town_area>>
  ELSE <<n.town_area, n.house_number, n.jigyosho>>

\* What the loop body takes from one line before it touches the dataset.
Row(type, line) ==
  IF RowPanics(type, line) THEN [panics |-> TRUE]
  ELSE LET n == Normalize(type, line)
       IN  [panics |-> FALSE,
            upper |-> UpperOf(n.zip_code),
            lower |-> LowerOf(n.zip_code),
            prefecture |-> n.prefecture,
            municipalitie |-> n.municipalitie,
            item |-> ItemOf(type, n)]

\* The lines buf.lines() can yield: at most one part per file is joined.
JoinedLines(type) == UNION {[1..n -> LinesOf(type)] : n \in 1..MaxFiles}

\* Row of every line of the model under the layout of a registry; @@ makes
\* the table an explicit function, so that a line is split once.
RowTable(type) ==
  LET t == [line \in JoinedLines(type) |-> Row(type, TextOf(line))]
  IN  t @@ t

Rows ==
  [CsvtKenAll |-> RowTable("CsvtKenAll"), CsvtJigyosho |-> RowTable("CsvtJigyosho")]

RowOf(type, line) ==
  IF line \in DOMAIN Rows[type] THEN Rows[type][line]
  ELSE Row(type, TextOf(line))

(***************************************************************************)
(* The prefecture/municipality table of one upper code.                    *)
(***************************************************************************)
\* HashMap::insert(k, v): the value of an existing key is replaced.
MapInsert(map, k, v) == (k :> v) @@ map

\* OneUpperZipStore::new()
NewStore == [pref_and_munics |-> <<>>, address |-> <<>>]

\* The orders in which iterating a HashMap with keys S may visit them.
Orders(S) ==
  {o \in [1..Cardinality(S) -> S] : \A i, j \in 1..Cardinality(S) : o[i] = o[j] => i = j}

\* The scan of pref_and_munics in iteration order `order`: p_m_id starts at
\* 1, a match sets it to the matching code and breaks, a miss adds one.
RECURSIVE ScanFrom(_, _, _, _, _, _)
ScanFrom(pairs, order, i, p_m_id, prefecture, municipalitie) ==
  IF i > Len(order) THEN [found |-> FALSE, p_m_id |-> p_m_id]
  ELSE IF /\ pairs[order[i]].pref = prefecture
          /\ pairs[order[i]].munic = municipalitie
    THEN [found |-> TRUE, p_m_id |-> order[i]]
    ELSE ScanFrom(pairs, order, i + 1, p_m_id + 1, prefecture, municipalitie)

\* Mutant of Scan: a miss does not add one to p_m_id.
RECURSIVE ScanNoIncrementFrom(_, _, _, _, _)
ScanNoIncrementFrom(pairs, order, i, prefecture, municipalitie) ==
  IF i > Len(order) THEN [found |-> FALSE, p_m_id |-> 1]
  ELSE IF /\ pairs[order[i]].pref = prefecture
          /\ pairs[order[i]].munic = municipalitie
    THEN [found |-> TRUE, p_m_id |-> order[i]]
    ELSE ScanNoIncrementFrom(pairs, order, i + 1, prefecture, municipalitie)

ScanNoIncrement(pairs, order, prefecture, municipalitie) ==
  ScanNoIncrementFrom(pairs, order, 1, prefecture, municipalitie)

\* Mutant of Scan: the break after a match is missing.
RECURSIVE ScanNoBreakFrom(_, _, _, _, _, _, _)
ScanNoBreakFrom(pairs, order, i, found, p_m_id, prefecture, municipalitie) ==
  IF i > Len(order) THEN [found |-> found, p_m_id |-> p_m_id]
  ELSE IF /\ pairs[order[i]].pref = prefecture
          /\ pairs[order[i]].munic = municipalitie
    THEN ScanNoBreakFrom(pairs, order, i + 1, TRUE, order[i], prefecture,
                         municipalitie)
    ELSE ScanNoBreakFrom(pairs, order, i + 1, found, p_m_id + 1, prefecture,
                         municipalitie)

ScanNoBreak(pairs, order, prefecture, municipalitie) ==
  ScanNoBreakFrom(pairs, order, 1, FALSE, 1, prefecture, municipalitie)

Scan(pairs, order, prefecture, municipalitie) ==
  ScanFrom(pairs, order, 1, 1, prefecture, municipalitie)

\* Mutant of PairsAfter: the insert of an unseen pair is missing.
PairsAfterNoInsert(pairs, scan, prefecture, municipalitie) == pairs

\* if !found { pref_and_munics.insert(p_m_id, ...) }
PairsAfter(pairs, scan, prefecture, municipalitie) ==
  IF scan.found THEN pairs
  ELSE MapInsert(pairs, scan.p_m_id, [pref |-> prefecture, munic |-> municipalitie])

\* Mutant of AddressAfter: the code of an existing entry is overwritten.
AddressAfterLastWins(address, lower, p_m_id, item) ==
  LET old == IF lower \in DOMAIN address THEN address[lower].address ELSE <<>>
  IN  MapInsert(address, lower, [code |-> p_m_id, address |-> Append(old, item)])

\* address.entry(lower).or_insert(OneLowerZipStore { code, address: vec![] })
\* followed by the append of the row's item.
AddressAfter(address, lower, p_m_id, item) ==
  LET base == IF lower \in DOMAIN address THEN address
              ELSE MapInsert(address, lower, [code |-> p_m_id, address |-> <<>>])
  IN  [base EXCEPT ![lower].address = Append(@, item)]

\* result.entry(upper).or_insert(OneUpperZipStore::new())
StoreOf(ds, upper) == IF upper \in DOMAIN ds THEN ds[upper] ELSE NewStore

\* The code the row resolves to when the scan visits the keys in `order`.
CodeOf(ds, row, order) ==
  Scan(StoreOf(ds, row.upper).pref_and_munics, order,
       row.prefecture, row.municipalitie).p_m_id

\* One well-formed row folded into the dataset.
FoldRow(ds, row, order) ==
  LET store == StoreOf(ds, row.upper)
      scan == Scan(store.pref_and_munics, order, row.prefecture, row.municipalitie)
      after == [pref_and_munics |->
                  PairsAfter(store.pref_and_munics, scan, row.prefecture,
                             row.municipalitie),
                address |->
                  AddressAfter(store.address, row.lower, scan.p_m_id, row.item)]
  IN  MapInsert(ds, row.upper, after)

\* The iteration orders open to the scan for this row.
ScanOrders(ds, row) == Orders(DOMAIN StoreOf(ds, row.upper).pref_and_munics)

(***************************************************************************)
(* serde_json::to_writer_pretty with rename_all = "PascalCase".            *)
(***************************************************************************)
Serialize(store) ==
  [PrefAndMunics |->
     [c \in DOMAIN store.pref_and_munics |->
        [Pref |-> store.pref_and_munics[c].pref,
         Munic |-> store.pref_and_munics[c].munic]],
   Address |->
     [s \in DOMAIN store.address |->
        [Code |-> store.address[s].code, Address |-> store.address[s].address]]]


(***************************************************************************)
(* The state of one run of main.                                           *)
(*                                                                         *)
(* pc       where main stands: "start", "tempdir", then per registry       *)
(*          "fetch",                                                       *)
(*          "unzip", "encode", "csv", then "emit"; the ends are "done",    *)
(*          "usage" (exit 0 after the usage line), "failed" (main returned *)
(*          after a registry reported false), "panicked" (a panic unwound  *)
(*          main) and "exit1" (std::process::exit(1) during emission).     *)
(* reg      the registry in work: "CsvtKenAll" or "CsvtJigyosho".          *)
(* nFiles   the length of the Vec<File> unzip_file returned.               *)
(* fileIdx  files re-encoded ("encode") resp. read ("csv") so far.         *)
(* buf      the String buf of process_csv_files: names of line texts and   *)
(*          line terminators.                                              *)
(* lineIdx  the line of buf the loop over buf.lines() stands at.           *)
(* result   entire_zip_data.                                               *)
(* zip_number, created, docs, written, progress: the emission loop, the    *)
(*          files File::create made, the documents written with their      *)
(*          text, their names in the order written, and what the loop      *)
(*          printed for the last prefix it handled.                        *)
(*                                                                         *)
(* History kept for the properties:                                        *)
(* resultB, docsB, writtenB  a second run over the same input whose        *)
(*          HashMap iterations are free to take other orders;              *)
(* orderDiff  some scan of the two runs visited the keys in two orders;    *)
(* seen     per upper code, the distinct (pref, munic) pairs in the order  *)
(*          their first rows were folded;                                  *)
(* folded   the rows folded so far, as (upper, item);                      *)
(* last     the row folded last: its upper and lower code, its pair, its   *)
(*          item and the p_m_id the scan resolved for it;                  *)
(* nKen, nJig  rows folded per layout;                                     *)
(* callLines, callFolds  lines of the files read, and rows folded, by the  *)
(*          process_csv_files call in work;                                *)
(* kenDone, jigDone  process_*_zipdata returned true;                      *)
(* nEmpty   prefixes reported empty;                                       *)
(* failedAt the zip_number whose file could not be created or written, 0   *)
(*          while none failed.                                             *)
(***************************************************************************)
VARIABLES pc, reg, nFiles, fileIdx, buf, lineIdx, result,
          zip_number, created, docs, written, progress,
          resultB, docsB, writtenB, orderDiff,
          seen, folded, last, nKen, nJig, callLines, callFolds,
          kenDone, jigDone, nEmpty, failedAt

callVars == <<nFiles, fileIdx, buf, lineIdx>>

dataVars == <<result, resultB, orderDiff, seen, folded, last, nKen, nJig,
              callFolds>>

emitVars == <<zip_number, created, docs, written, progress, docsB, writtenB,
              nEmpty, failedAt>>

doneVars == <<kenDone, jigDone>>

readVars == <<callLines>>

vars == <<pc, reg, callVars, dataVars, emitVars, doneVars, readVars>>

NoRow == [upper |-> <<>>, lower |-> <<>>, pair |-> <<>>, item |-> <<>>, code |-> 0]

Init ==
  /\ pc = "start"
  /\ reg = "CsvtKenAll"
  /\ nFiles = 0
  /\ fileIdx = 0
  /\ buf = <<>>
  /\ lineIdx = 1
  /\ result = <<>>
  /\ zip_number = FirstZip
  /\ created = {}
  /\ docs = <<>>
  /\ written = <<>>
  /\ progress = "none"
  /\ resultB = <<>>
  /\ docsB = <<>>
  /\ writtenB = <<>>
  /\ orderDiff = FALSE
  /\ seen = <<>>
  /\ folded = {}
  /\ last = NoRow
  /\ nKen = 0
  /\ nJig = 0
  /\ callLines = 0
  /\ callFolds = 0
  /\ kenDone = FALSE
  /\ jigDone = FALSE
  /\ nEmpty = 0
  /\ failedAt = 0

(***************************************************************************)
(* main up to the first registry: parameter_check.                         *)
(***************************************************************************)
\* SavePathMode: main goes on to the temporary directory.
ParamSavePath ==
  /\ pc = "start"
  /\ pc' = "tempdir"
  /\ UNCHANGED <<reg, callVars, dataVars, emitVars, doneVars, readVars>>

\* TempDir::new("zip") returned the directory: main calls
\* process_ken_all_zipdata.
TempDirOk ==
  /\ pc = "tempdir"
  /\ pc' = "fetch"
  /\ UNCHANGED <<reg, callVars, dataVars, emitVars, doneVars, readVars>>

\* TempDir::new("zip") returned an error: unwrap panics.
TempDirPanic ==
  /\ pc = "tempdir"
  /\ pc' = "panicked"
  /\ UNCHANGED <<reg, callVars, dataVars, emitVars, doneVars, readVars>>

\* UsageMode or ParameterError: the usage line and exit(0).
ParamUsage ==
  /\ pc = "start"
  /\ pc' = "usage"
  /\ UNCHANGED <<reg, callVars, dataVars, emitVars, doneVars, readVars>>

\* UsageMode or ParameterError, and println! panics: the usage line cannot
\* be written to stdout.
UsagePrintPanic ==
  /\ pc = "start"
  /\ pc' = "panicked"
  /\ UNCHANGED <<reg, callVars, dataVars, emitVars, doneVars, readVars>>

(***************************************************************************)
(* process_ken_all_zipdata and process_jigyosyo_zipdata up to the call of  *)
(* process_csv_files.  A collaborator's Err makes the function return      *)
(* false and main return.  Every arm prints one line, println! on Ok and   *)
(* eprintln! on Err, and the macro panics when the line cannot be written. *)
(***************************************************************************)
FetchOk ==
  /\ pc = "fetch"
  /\ pc' = "unzip"
  /\ UNCHANGED <<reg, callVars, dataVars, emitVars, doneVars, readVars>>

\* Mutant of FetchErr: main ignores that the first registry reported false.
FetchErrIgnored ==
  /\ pc = "fetch"
  /\ IF reg = "CsvtKenAll"
       THEN pc' = "fetch" /\ reg' = "CsvtJigyosho"
       ELSE pc' = "failed" /\ reg' = reg
  /\ UNCHANGED <<callVars, dataVars, emitVars, doneVars, readVars>>

FetchErr ==
  /\ pc = "fetch"
  /\ pc' = "failed"
  /\ UNCHANGED <<reg, callVars, dataVars, emitVars, doneVars, readVars>>

\* fetch_url returned, and the println! or eprintln! of its arm panics.
FetchPrintPanic ==
  /\ pc = "fetch"
  /\ pc' = "panicked"
  /\ UNCHANGED <<reg, callVars, dataVars, emitVars, doneVars, readVars>>

\* After the last collaborator call process_csv_files starts: buf is new.
UnzipOk ==
  /\ pc = "unzip"
  /\ \E n \in 0..MaxFiles :
       /\ nFiles' = n
       /\ pc' = IF n = 0 THEN "csv" ELSE "encode"
  /\ fileIdx' = 0
  /\ buf' = <<>>
  /\ lineIdx' = 1
  /\ callLines' = 0
  /\ callFolds' = 0
  /\ UNCHANGED <<reg, result, resultB, orderDiff, seen, folded, last, nKen,
                 nJig, emitVars, doneVars>>

UnzipErr ==
  /\ pc = "unzip"
  /\ pc' = "failed"
  /\ UNCHANGED <<reg, callVars, dataVars, emitVars, doneVars, readVars>>

\* unzip_file returned, and the println! or eprintln! of its arm panics.
UnzipPrintPanic ==
  /\ pc = "unzip"
  /\ pc' = "panicked"
  /\ UNCHANGED <<reg, callVars, dataVars, emitVars, doneVars, readVars>>

\* sjis_to_uft8 of the next file returned, and the println! or eprintln! of
\* its arm panics.
EncodePrintPanic ==
  /\ pc = "encode"
  /\ fileIdx < nFiles
  /\ pc' = "panicked"
  /\ UNCHANGED <<reg, callVars, dataVars, emitVars, doneVars, readVars>>

\* sjis_to_uft8 of the next file succeeded.
EncodeOk ==
  /\ pc = "encode"
  /\ fileIdx < nFiles
  /\ IF fileIdx + 1 = nFiles
       THEN pc' = "csv" /\ fileIdx' = 0
       ELSE pc' = "encode" /\ fileIdx' = fileIdx + 1
  /\ UNCHANGED <<reg, nFiles, buf, lineIdx, dataVars, emitVars, doneVars,
                 readVars>>

EncodeErr ==
  /\ pc = "encode"
  /\ fileIdx < nFiles
  /\ pc' = "failed"
  /\ UNCHANGED <<reg, callVars, dataVars, emitVars, doneVars, readVars>>

(***************************************************************************)
(* process_csv_files.                                                      *)
(***************************************************************************)
\* The text of a file of the given lines; `ended` says whether its last
\* line carries a line terminator.
RECURSIVE FileText(_, _)
FileText(ls, ended) ==
  IF ls = <<>> THEN <<>>
  ELSE IF Len(ls) = 1 THEN (IF ended THEN <<ls[1], Newline>> ELSE <<ls[1]>>)
  ELSE <<Head(ls), Newline>> \o FileText(Tail(ls), ended)

\* The texts a file may hold: at most `room` lines.
FileContents(type, room) ==
  {FileText(ls, ended) :
     ls \in UNION {[1..n -> LinesOf(type)] : n \in 0..room},
     ended \in BOOLEAN}

\* The next file of the loop over files: rewind, then read_to_string, which
\* appends the file's text to buf; the loop over buf.lines() starts over.
ReadFile ==
  /\ pc = "csv"
  /\ lineIdx > Len(Lines(buf))
  /\ fileIdx < nFiles
  /\ \E text \in FileContents(reg, MaxRows - (nKen + nJig + Len(Lines(buf)))) :
       /\ buf' = buf \o text
       /\ callLines' = callLines + Len(Lines(text))
  /\ lineIdx' = 1
  /\ fileIdx' = fileIdx + 1
  /\ UNCHANGED <<pc, reg, nFiles, dataVars, emitVars, doneVars>>

\* rewind or read_to_string returned an error: unwrap panics.
ReadPanic ==
  /\ pc = "csv"
  /\ lineIdx > Len(Lines(buf))
  /\ fileIdx < nFiles
  /\ pc' = "panicked"
  /\ UNCHANGED <<reg, callVars, dataVars, emitVars, doneVars, readVars>>

\* The pairs of an upper code in order of first appearance, one row later.
SeenAfter(s, upper, pair) ==
  LET old == IF upper \in DOMAIN s THEN s[upper] ELSE <<>>
  IN  IF \E i \in 1..Len(old) : old[i] = pair THEN s
      ELSE MapInsert(s, upper, Append(old, pair))

PairOf(row) == [pref |-> row.prefecture, munic |-> row.municipalitie]

\* One well-formed line of buf.lines(): the body of the loop.
FoldLine ==
  /\ pc = "csv"
  /\ lineIdx <= Len(Lines(buf))
  /\ LET row == RowOf(reg, Lines(buf)[lineIdx])
     IN  /\ ~row.panics
         /\ \E oA \in ScanOrders(result, row), oB \in ScanOrders(resultB, row) :
              /\ result' = FoldRow(result, row, oA)
              /\ resultB' = FoldRow(resultB, row, oB)
              /\ orderDiff' = IF oA # oB THEN TRUE ELSE orderDiff
              /\ last' = [upper |-> row.upper, lower |-> row.lower,
                          pair |-> PairOf(row), item |-> row.item,
                          code |-> CodeOf(result, row, oA)]
         /\ seen' = SeenAfter(seen, row.upper, PairOf(row))
         /\ folded' = folded \cup {<<row.upper, row.item>>}
  /\ lineIdx' = lineIdx + 1
  /\ nKen' = IF reg = "CsvtKenAll" THEN nKen + 1 ELSE nKen
  /\ nJig' = IF reg = "CsvtJigyosho" THEN nJig + 1 ELSE nJig
  /\ callFolds' = callFolds + 1
  /\ UNCHANGED <<pc, reg, nFiles, fileIdx, buf, emitVars, doneVars, readVars>>

\* A line that cannot be indexed or split: the thread panics.
FoldPanic ==
  /\ pc = "csv"
  /\ lineIdx <= Len(Lines(buf))
  /\ RowOf(reg, Lines(buf)[lineIdx]).panics
  /\ pc' = "panicked"
  /\ UNCHANGED <<reg, callVars, dataVars, emitVars, doneVars, readVars>>

\* Ok(()) after the last file: process_ken_all_zipdata returns true and main
\* calls process_jigyosyo_zipdata; after that one main starts the emission.
\* The locals of the call (buf, the files) are dropped.
CsvReturn ==
  /\ pc = "csv"
  /\ lineIdx > Len(Lines(buf))
  /\ fileIdx = nFiles
  /\ IF reg = "CsvtKenAll"
       THEN /\ pc' = "fetch"
            /\ reg' = "CsvtJigyosho"
            /\ kenDone' = TRUE
            /\ jigDone' = jigDone
       ELSE /\ pc' = "emit"
            /\ reg' = reg
            /\ jigDone' = TRUE
            /\ kenDone' = kenDone
  /\ nFiles' = 0
  /\ fileIdx' = 0
  /\ buf' = <<>>
  /\ lineIdx' = 1
  /\ callLines' = 0
  /\ callFolds' = 0
  /\ UNCHANGED <<result, resultB, orderDiff, seen, folded, last, nKen, nJig,
                 emitVars>>

\* Ok(()) after the last file, and one of the two println! that follow in
\* process_*_zipdata panics: the function does not return.
CsvReturnPrintPanic ==
  /\ pc = "csv"
  /\ lineIdx > Len(Lines(buf))
  /\ fileIdx = nFiles
  /\ pc' = "panicked"
  /\ UNCHANGED <<reg, callVars, dataVars, emitVars, doneVars, readVars>>

(***************************************************************************)
(* The emission loop of main: for zip_number in 1..1000.  stdout is line   *)
(* buffered: print! of a progress entry only fills the buffer, and the     *)
(* println! after every tenth prefix writes the line and panics when that  *)
(* fails.  eprintln! writes at once.                                       *)
(***************************************************************************)
\* The key the loop looks up.
EmitKey == Format03(zip_number)

\* Some(val), File::create and to_writer_pretty succeed.
EmitDoc ==
  /\ pc = "emit"
  /\ zip_number < EndZip
  /\ EmitKey \in DOMAIN result
  /\ created' = created \cup {EmitKey}
  /\ docs' = MapInsert(docs, EmitKey, Serialize(result[EmitKey]))
  /\ written' = Append(written, EmitKey)
  /\ progress' = "written"
  /\ IF EmitKey \in DOMAIN resultB
       THEN /\ docsB' = MapInsert(docsB, EmitKey, Serialize(resultB[EmitKey]))
            /\ writtenB' = Append(writtenB, EmitKey)
       ELSE UNCHANGED <<docsB, writtenB>>
  /\ zip_number' = zip_number + 1
  /\ UNCHANGED <<pc, reg, callVars, dataVars, doneVars, readVars, nEmpty,
                 failedAt>>

\* Some(val), the document is written, print! has put its entry on the
\* progress line, and the println! that ends the line panics.
EmitDocPrintPanic ==
  /\ pc = "emit"
  /\ zip_number < EndZip
  /\ zip_number % 10 = 0
  /\ EmitKey \in DOMAIN result
  /\ created' = created \cup {EmitKey}
  /\ docs' = MapInsert(docs, EmitKey, Serialize(result[EmitKey]))
  /\ written' = Append(written, EmitKey)
  /\ IF EmitKey \in DOMAIN resultB
       THEN /\ docsB' = MapInsert(docsB, EmitKey, Serialize(resultB[EmitKey]))
            /\ writtenB' = Append(writtenB, EmitKey)
       ELSE UNCHANGED <<docsB, writtenB>>
  /\ progress' = "written"
  /\ pc' = "panicked"
  /\ UNCHANGED <<reg, callVars, dataVars, doneVars, readVars, zip_number,
                 nEmpty, failedAt>>

\* Mutant of EmitCreateErr: the message, and the loop goes on.
EmitCreateErrContinues ==
  /\ pc = "emit"
  /\ zip_number < EndZip
  /\ EmitKey \in DOMAIN result
  /\ failedAt' = zip_number
  /\ zip_number' = zip_number + 1
  /\ UNCHANGED <<pc, reg, callVars, dataVars, created, docs, written,
                 progress, docsB, writtenB, nEmpty, doneVars, readVars>>

\* Some(val), File::create fails: the message and exit(1).
EmitCreateErr ==
  /\ pc = "emit"
  /\ zip_number < EndZip
  /\ EmitKey \in DOMAIN result
  /\ pc' = "exit1"
  /\ failedAt' = zip_number
  /\ UNCHANGED <<reg, callVars, dataVars, zip_number, created, docs, written,
                 progress, docsB, writtenB, nEmpty, doneVars, readVars>>

\* Some(val), File::create fails and eprintln! panics before exit(1).
EmitCreateErrPrintPanic ==
  /\ pc = "emit"
  /\ zip_number < EndZip
  /\ EmitKey \in DOMAIN result
  /\ pc' = "panicked"
  /\ failedAt' = zip_number
  /\ UNCHANGED <<reg, callVars, dataVars, zip_number, created, docs, written,
                 progress, docsB, writtenB, nEmpty, doneVars, readVars>>

\* Some(val), the file is created and to_writer_pretty fails: exit(1).
EmitWriteErr ==
  /\ pc = "emit"
  /\ zip_number < EndZip
  /\ EmitKey \in DOMAIN result
  /\ created' = created \cup {EmitKey}
  /\ pc' = "exit1"
  /\ failedAt' = zip_number
  /\ UNCHANGED <<reg, callVars, dataVars, zip_number, docs, written, progress,
                 docsB, writtenB, nEmpty, doneVars, readVars>>

\* Some(val), the file is created, to_writer_pretty fails and eprintln!
\* panics before exit(1).
EmitWriteErrPrintPanic ==
  /\ pc = "emit"
  /\ zip_number < EndZip
  /\ EmitKey \in DOMAIN result
  /\ created' = created \cup {EmitKey}
  /\ pc' = "panicked"
  /\ failedAt' = zip_number
  /\ UNCHANGED <<reg, callVars, dataVars, zip_number, docs, written, progress,
                 docsB, writtenB, nEmpty, doneVars, readVars>>

\* None: four blanks on the progress line, no file.
EmitEmpty ==
  /\ pc = "emit"
  /\ zip_number < EndZip
  /\ EmitKey \notin DOMAIN result
  /\ progress' = "empty"
  /\ nEmpty' = nEmpty + 1
  /\ IF EmitKey \in DOMAIN resultB
       THEN /\ docsB' = MapInsert(docsB, EmitKey, Serialize(resultB[EmitKey]))
            /\ writtenB' = Append(writtenB, EmitKey)
       ELSE UNCHANGED <<docsB, writtenB>>
  /\ zip_number' = zip_number + 1
  /\ UNCHANGED <<pc, reg, callVars, dataVars, created, docs, written,
                 doneVars, readVars, failedAt>>

\* None, print! has put the four blanks on the progress line, and the
\* println! that ends the line panics.
EmitEmptyPrintPanic ==
  /\ pc = "emit"
  /\ zip_number < EndZip
  /\ zip_number % 10 = 0
  /\ EmitKey \notin DOMAIN result
  /\ progress' = "empty"
  /\ nEmpty' = nEmpty + 1
  /\ pc' = "panicked"
  /\ UNCHANGED <<reg, callVars, dataVars, doneVars, readVars, zip_number,
                 created, docs, written, docsB, writtenB, failedAt>>

\* The loop is over, and one of the two println! after it panics.
EmitFinishPrintPanic ==
  /\ pc = "emit"
  /\ zip_number = EndZip
  /\ pc' = "panicked"
  /\ UNCHANGED <<reg, callVars, dataVars, emitVars, doneVars, readVars>>

\* The loop is over: the completion line.
EmitFinish ==
  /\ pc = "emit"
  /\ zip_number = EndZip
  /\ pc' = "done"
  /\ UNCHANGED <<reg, callVars, dataVars, emitVars, doneVars, readVars>>

Next ==
  \/ ParamSavePath
  \/ ParamUsage
  \/ UsagePrintPanic
  \/ TempDirOk
  \/ TempDirPanic
  \/ FetchOk
  \/ FetchErr
  \/ FetchPrintPanic
  \/ UnzipOk
  \/ UnzipErr
  \/ UnzipPrintPanic
  \/ EncodeOk
  \/ EncodeErr
  \/ EncodePrintPanic
  \/ ReadFile
  \/ ReadPanic
  \/ FoldLine
  \/ FoldPanic
  \/ CsvReturn
  \/ CsvReturnPrintPanic
  \/ EmitDoc
  \/ EmitDocPrintPanic
  \/ EmitCreateErr
  \/ EmitCreateErrPrintPanic
  \/ EmitWriteErr
  \/ EmitWriteErrPrintPanic
  \/ EmitEmpty
  \/ EmitEmptyPrintPanic
  \/ EmitFinish
  \/ EmitFinishPrintPanic

Spec == Init /\ [][Next]_vars


(***************************************************************************)
(* Notions the properties are stated with.  They are written from the      *)
(* properties' side and use none of the operators of the model above       *)
(* except the alphabet.                                                    *)
(***************************************************************************)
DigitChars == {"0", "1", "2", "3", "4", "5", "6", "7", "8", "9"}

DigitValue(c) == CHOOSE v \in 0..9 : Digit[v + 1] = c

IsThreeDigits(u) == Len(u) = 3 /\ \A i \in 1..3 : u[i] \in DigitChars

NumOf(u) == 100 * DigitValue(u[1]) + 10 * DigitValue(u[2]) + DigitValue(u[3])

\* The upper code is one of 001, 002, ..., 999.
InEmitRange(u) == IsThreeDigits(u) /\ NumOf(u) >= 1

Range(f) == {f[x] : x \in DOMAIN f}

\* The payloads a written document holds.
DocItems(doc) == UNION {Range(doc.Address[s].Address) : s \in DOMAIN doc.Address}

\* The (prefecture, municipality) table of a group.
TableOf(ds, u) == IF u \in DOMAIN ds THEN ds[u].pref_and_munics ELSE <<>>

\* The suffix entries of a group.
EntriesOf(ds, u) == IF u \in DOMAIN ds THEN ds[u].address ELSE <<>>

\* The step folded a row (every folded row adds an item, so result changes).
Folds == result' # result

\* process_csv_files stands after its last file with no line left.
CsvFinished == pc = "csv" /\ fileIdx = nFiles /\ lineIdx > Len(Lines(buf))

U150 == <<"1", "5", "0">>

U001 == <<"0", "0", "1">>

(***************************************************************************)
(* C1: in every prefix group the code of every suffix entry is a key of    *)
(* the group's pref_and_munics map, after every single row.                *)
(***************************************************************************)
NoDanglingCode ==
  \A u \in DOMAIN result : \A s \in DOMAIN result[u].address :
    result[u].address[s].code \in DOMAIN result[u].pref_and_munics

\* Rows of both registries are folded and some entry carries code 2.
NoDanglingCodeWitness ==
  /\ nKen > 0
  /\ nJig > 0
  /\ \E u \in DOMAIN result : \E s \in DOMAIN result[u].address :
       result[u].address[s].code = 2

(***************************************************************************)
(* C2: in every prefix group the pair table maps the codes 1..n one-to-one *)
(* onto the n distinct pairs seen so far, the k-th distinct pair having    *)
(* code k; a row whose pair is present resolves to the existing code and   *)
(* inserts nothing, a row with an unseen pair gets code n + 1 and no       *)
(* existing code is overwritten.                                           *)
(***************************************************************************)
PairTableIsFirstSeenOrder ==
  /\ DOMAIN seen = DOMAIN result
  /\ \A u \in DOMAIN result :
       LET pm == result[u].pref_and_munics
       IN  /\ DOMAIN pm = 1..Len(seen[u])
           /\ \A k \in DOMAIN pm : pm[k] = seen[u][k]
           /\ \A j, k \in DOMAIN pm : pm[j] = pm[k] => j = k
  /\ last.code # 0 => /\ last.code \in DOMAIN TableOf(result, last.upper)
                      /\ TableOf(result, last.upper)[last.code] = last.pair

PairStep ==
  Folds =>
    LET old == TableOf(result, last'.upper)
        new == TableOf(result', last'.upper)
        n == Cardinality(DOMAIN old)
    IN  /\ \A c \in DOMAIN old : c \in DOMAIN new /\ new[c] = old[c]
        /\ IF \E c \in DOMAIN old : old[c] = last'.pair
             THEN new = old /\ old[last'.code] = last'.pair
             ELSE /\ last'.code = n + 1
                  /\ DOMAIN new = DOMAIN old \cup {n + 1}
                  /\ new[n + 1] = last'.pair
        /\ \A u \in DOMAIN result :
             u # last'.upper => TableOf(result', u) = TableOf(result, u)

PairCodes == []PairTableIsFirstSeenOrder /\ [][PairStep]_vars

\* A group holds two pairs and the row folded last resolved to code 1, the
\* code of a pair that was already present.
PairCodesWitness ==
  /\ last.code = 1
  /\ Len(seen[last.upper]) = 2
  /\ nKen + nJig >= 3

(***************************************************************************)
(* C3: the code of a suffix entry is the code resolved for the row that    *)
(* creates the entry and no later row changes it, also when that row       *)
(* resolves to another code; the later row's payload is appended to the    *)
(* entry's items all the same.                                             *)
(***************************************************************************)
EntryStep ==
  Folds =>
    LET u == last'.upper
        s == last'.lower
        old == EntriesOf(result, u)
        new == EntriesOf(result', u)
    IN  /\ \A v \in DOMAIN result : \A t \in DOMAIN result[v].address :
             /\ v \in DOMAIN result' /\ t \in DOMAIN result'[v].address
             /\ result'[v].address[t].code = result[v].address[t].code
             /\ (v # u \/ t # s) => result'[v].address[t] = result[v].address[t]
        /\ s \in DOMAIN new
        /\ IF s \in DOMAIN old
             THEN new[s].address = Append(old[s].address, last'.item)
             ELSE new[s] = [code |-> last'.code, address |-> <<last'.item>>]

FirstWriteWins == [][EntryStep]_vars

\* One KEN_ALL row, then one JIGYOSYO row with its prefix and suffix and
\* another municipality: two pairs, one entry with the two payloads, the
\* entry's code the first row's, the second row resolved to code 2.
FirstWriteWinsWitness ==
  /\ nKen = 1
  /\ nJig = 1
  /\ last.code = 2
  /\ DOMAIN result = {last.upper}
  /\ DOMAIN result[last.upper].pref_and_munics = {1, 2}
  /\ DOMAIN result[last.upper].address = {last.lower}
  /\ result[last.upper].address[last.lower].code = 1
  /\ Len(result[last.upper].address[last.lower].address) = 2
  /\ Len(result[last.upper].address[last.lower].address[1]) = 1
  /\ result[last.upper].address[last.lower].address[2] = last.item

(***************************************************************************)
(* C4 as claimed: when the run is complete, every folded row's prefix has  *)
(* a document and the document holds the row's payload.                    *)
(***************************************************************************)
EveryGroupEmitted ==
  pc = "done" =>
    \A r \in folded : r[1] \in DOMAIN docs /\ r[2] \in DocItems(docs[r[1]])

(***************************************************************************)
(* C4 as amended: when the run is complete, every folded row whose prefix  *)
(* is one of 001..999 has a document named by the prefix that holds the    *)
(* row's payload, each such document was written exactly once, and a group *)
(* with any other prefix (000, not three digits) has no document.          *)
(***************************************************************************)
GroupsInRangeEmitted ==
  pc = "done" =>
    /\ \A r \in folded :
         InEmitRange(r[1]) => r[1] \in DOMAIN docs /\ r[2] \in DocItems(docs[r[1]])
    /\ \A u \in DOMAIN result :
         IF InEmitRange(u)
           THEN /\ Cardinality({i \in 1..Len(written) : written[i] = u}) = 1
                /\ DOMAIN docs[u].Address = DOMAIN result[u].address
                /\ DOMAIN docs[u].PrefAndMunics = DOMAIN result[u].pref_and_munics
           ELSE u \notin DOMAIN docs /\ u \notin created

\* The run is complete with a folded row of prefix 001 and one of a prefix
\* outside 001..999.
GroupsInRangeEmittedWitness ==
  /\ pc = "done"
  /\ \E r \in folded : r[1] = U001
  /\ \E r \in folded : ~InEmitRange(r[1])

(***************************************************************************)
(* C5: two runs over the same input rows agree whatever order the scans of *)
(* pref_and_munics visit the keys in: the same groups, the same code to    *)
(* pair tables, the same code and items in every entry, the same documents *)
(* in the same order.                                                      *)
(***************************************************************************)
TwoRunsAgree ==
  /\ result = resultB
  /\ docs = docsB
  /\ written = writtenB

\* The two runs are complete, wrote a document, and some scan of theirs
\* visited the keys in two different orders.
TwoRunsAgreeWitness ==
  /\ pc = "done"
  /\ orderDiff
  /\ written # <<>>

(***************************************************************************)
(* C6: the emitter visits 001, 002, ..., 999 in ascending order, each      *)
(* once: the documents are written in ascending prefix order whatever the  *)
(* order the prefixes were first seen in, at most 999 of them; a prefix    *)
(* with no group gets no document, is reported empty, and the loop goes on *)
(* with the next prefix.                                                   *)
(***************************************************************************)
\* The prefix the loop stands at has its document: the run ended there
\* after writing it.
AtWritten == written # <<>> /\ NumOf(written[Len(written)]) = zip_number

EmitOrder ==
  /\ zip_number \in 1..1000
  /\ ~(kenDone /\ jigDone) => zip_number = 1 /\ written = <<>>
  /\ \A i \in 1..Len(written) : InEmitRange(written[i]) /\ NumOf(written[i]) <= zip_number
  /\ AtWritten => pc = "panicked"
  /\ \A i, j \in 1..Len(written) : i < j => NumOf(written[i]) < NumOf(written[j])
  /\ Range(written) \subseteq DOMAIN result
  /\ \A u \in DOMAIN result :
       (InEmitRange(u) /\ NumOf(u) < zip_number) => u \in Range(written)
  /\ DOMAIN docs = Range(written)
  /\ Len(written) + nEmpty \in {zip_number - 1, zip_number}
  /\ Len(written) + nEmpty = zip_number => pc = "panicked"
  /\ Len(written) <= 999
  /\ pc = "done" => zip_number = 1000

EmptyStep ==
  ( /\ pc = "emit"
    /\ zip_number < 1000
    /\ ~ \E u \in DOMAIN result : InEmitRange(u) /\ NumOf(u) = zip_number )
  => /\ pc' = "emit"
     /\ zip_number' = zip_number + 1
     /\ progress' = "empty"
     /\ nEmpty' = nEmpty + 1
     /\ docs' = docs
     /\ created' = created
     /\ written' = written

EmitterAscending == []EmitOrder /\ [][EmptyStep]_vars

(***************************************************************************)
(* C7: a malformed row (fewer than 9 fields in the KEN_ALL layout, fewer   *)
(* than 8 in the JIGYOSYO layout, or a quote-stripped postal code shorter  *)
(* than 3 characters) is not folded: aggregation stops at it and the run   *)
(* ends without a document.                                                *)
(***************************************************************************)
ClaimedMalformed(type, line) ==
  LET columns == Split(line)
  IN  IF type = "CsvtKenAll"
        THEN IF Len(columns) < 9 THEN TRUE
             ELSE Len(Remove(columns[3], <<Quote>>)) < 3
        ELSE IF Len(columns) < 8 THEN TRUE
             ELSE Len(Remove(columns[8], <<Quote>>)) < 3

MalformedLines ==
  [type \in {"CsvtKenAll", "CsvtJigyosho"} |->
     {line \in JoinedLines(type) : ClaimedMalformed(type, TextOf(line))}]

MalformedStep ==
  (/\ pc = "csv"
   /\ lineIdx <= Len(Lines(buf))
   /\ Lines(buf)[lineIdx] \in MalformedLines[reg])
  => /\ pc' \notin {"csv", "fetch", "emit", "done"}
     /\ result' = result
     /\ docs' = <<>>

MalformedRowStops == [][MalformedStep]_vars

(***************************************************************************)
(* C8: when creating or writing the document of a populated prefix p       *)
(* fails, the run ends at p as failed: no document of a prefix above p is  *)
(* created or written and the run never reports completion.                *)
(***************************************************************************)
AbortedAt ==
  failedAt # 0 =>
    /\ pc \in {"exit1", "panicked"}
    /\ zip_number = failedAt
    /\ \A u \in created \cup DOMAIN docs : NumOf(u) <= failedAt
    /\ \A u \in DOMAIN docs : NumOf(u) < failedAt

WriteFailureAborts == []AbortedAt /\ [][failedAt = 0 /\ pc # "exit1"]_vars

\* The document of 001 failed while the group of 150 waits: nothing of 150
\* is created.
WriteFailureAbortsWitness ==
  /\ pc = "exit1"
  /\ failedAt = 1
  /\ U150 \in DOMAIN result
  /\ U150 \notin created

(***************************************************************************)
(* C9: one process_csv_files call folds every line of its files exactly    *)
(* once, for any number of files: when the call is through, the rows it    *)
(* folded are as many as the lines of its files.                           *)
(***************************************************************************)
SinglePass == CsvFinished => callFolds = callLines

(***************************************************************************)
(* C10: every KEN_ALL row is folded before any JIGYOSYO row, both into the *)
(* same dataset; no document is created before both registries are         *)
(* through; when the first registry fails the second is never processed,   *)
(* and when either fails no document is written.                           *)
(***************************************************************************)
PhaseOrder ==
  /\ nJig > 0 => kenDone
  /\ (reg = "CsvtJigyosho") = kenDone
  /\ pc \in {"emit", "done", "exit1"} => kenDone /\ jigDone
  /\ (kenDone /\ jigDone) => pc \in {"emit", "done", "exit1", "panicked"}
  /\ (created # {} \/ DOMAIN docs # {}) => kenDone /\ jigDone
  /\ pc = "failed" => created = {} /\ DOMAIN docs = {}
  /\ (pc \in {"failed", "panicked"} /\ ~kenDone) => nJig = 0
  /\ (pc \in {"failed", "panicked"} /\ ~(kenDone /\ jigDone))
       => created = {} /\ DOMAIN docs = {}

PhaseStep ==
  /\ (nJig > 0 \/ kenDone) => nKen' = nKen
  /\ pc \notin {"failed", "panicked"}

PhasesOrdered == []PhaseOrder /\ [][PhaseStep]_vars

\* A complete run that folded rows of both registries into one group and
\* wrote its document.
PhasesOrderedWitness ==
  /\ pc = "done"
  /\ nKen > 0
  /\ nJig > 0
  /\ \E u \in DOMAIN docs : \E s \in DOMAIN docs[u].Address :
       \E i, j \in 1..Len(docs[u].Address[s].Address) :
         /\ Len(docs[u].Address[s].Address[i]) = 1
         /\ Len(docs[u].Address[s].Address[j]) = 3

====
